---- MODULE Spec2Model ----
(***************************************************************************)
(* Model of the incremental indexing pipeline of claude_indexer:           *)
(* CoreIndexer.index_project (indexer.py) with the state file, the vector  *)
(* collection (storage/qdrant.py), the unified content processor           *)
(* (processing/) and the orphan sweeps (qdrant.py, diff_layers.py).        *)
(*                                                                         *)
(* Strings that the code inspects (paths, entity names, module names) are  *)
(* sequences of one-character strings, so that endswith / in / split /     *)
(* lstrip are computed the way Python computes them.                       *)
(***************************************************************************)
EXTENDS Integers, Sequences, FiniteSets, TLC

\* ------------------------------------------------------------------------
\* Bounds of the model
\* ------------------------------------------------------------------------
\* file contents are numbered 1..MaxContent (0 stands for "not on disk")
MaxContent == 2
\* modification times are 1..MaxTime
MaxTime == 2
\* number of file-system edits in one behaviour
MaxEdits == 3
\* number of index_project runs in one behaviour
MaxRuns == 2

\* ------------------------------------------------------------------------
\* Python string operations on character sequences
\* ------------------------------------------------------------------------
StartsWith(s, pre) ==
    /\ Len(pre) <= Len(s)
    /\ SubSeq(s, 1, Len(pre)) = pre

EndsWith(s, suf) ==
    /\ Len(suf) <= Len(s)
    /\ SubSeq(s, Len(s) - Len(suf) + 1, Len(s)) = suf

\* Python: sub in s
Contains(s, sub) ==
    \E i \in 1..(Len(s) - Len(sub) + 1) : SubSeq(s, i, i + Len(sub) - 1) = sub

\* Python: s.lstrip(ch) for a single character ch
RECURSIVE LStrip(_, _)
LStrip(s, ch) ==
    IF s # <<>> /\ Head(s) = ch THEN LStrip(Tail(s), ch) ELSE s

\* Python: s.replace(a, b) for single characters a, b
Replace(s, a, b) == [i \in 1..Len(s) |-> IF s[i] = a THEN b ELSE s[i]]

\* Python: s.split(ch), as the sequence of parts
RECURSIVE SplitAcc(_, _, _, _)
SplitAcc(s, ch, cur, acc) ==
    IF s = <<>> THEN Append(acc, cur)
    ELSE IF Head(s) = ch THEN SplitAcc(Tail(s), ch, <<>>, Append(acc, cur))
    ELSE SplitAcc(Tail(s), ch, Append(cur, Head(s)), acc)

Split(s, ch) == SplitAcc(s, ch, <<>>, <<>>)

Range(seq) == {seq[i] : i \in 1..Len(seq)}

\* ------------------------------------------------------------------------
\* The project: two source files under the project root /p
\* ------------------------------------------------------------------------
ProjectPath == <<"/", "p">>

FileA == <<"a", ".", "p", "y">>
FileB == <<"b", ".", "p", "y">>

\* relative paths, the keys of the state file
Files == {FileA, FileB}

\* project_path / relative
FullPath(rel) == ProjectPath \o <<"/">> \o rel

\* names of the entities and relation targets that the two files produce
FnF == <<"f">>
ClsG == <<"g">>
FnH == <<"h">>
BaseName == <<"B", "a", "s", "e">>
RelModA == <<".", "a">>
DataJson == <<"d", "a", "t", "a", ".", "j", "s", "o", "n">>

NoName == <<>>

\* the indexer: project files, state file, collection, entity-name cache of
\* the CoreIndexer instance, and the record of the latest run
VARIABLES disk, stateFile, coll, cached, sweepFailed, last, edits, runs
\* the state-file writer: the two paths it touches and its position
VARIABLES fs, writer
\* the batch upsert of the vector store in progress
VARIABLES upsert
\* the scroll helper of the store and the entity-name scan of the indexer
VARIABLES scroll, scan
\* the debouncer of the watcher and the wall clock, in seconds
VARIABLES deb, clock
\* a collection with manual memories in it, and the latest call on it
VARIABLES memory
\* the thread+timer coalescer of the watcher, fed with the events of the
\* debouncer, and the batches the debouncer has delivered so far
VARIABLES coal, delivered
\* two CoreIndexer instances storing into one collection at the same time
VARIABLES writers

indexerVars == <<disk, stateFile, coll, cached, sweepFailed, last, edits, runs>>

writerVars == <<fs, writer>>

upsertVars == <<upsert>>

scrollVars == <<scroll, scan>>

debounceVars == <<deb, clock>>

shapeVars == <<coal, delivered, writers>>

\* what the indexer's steps leave alone
outsideIndexer == <<memory, shapeVars, writerVars, upsertVars, scrollVars, debounceVars>>

\* what the writer's steps leave alone
outsideWriter == <<memory, shapeVars, indexerVars, upsertVars, scrollVars, debounceVars>>

\* what the steps of the batch upsert leave alone
outsideUpsert == <<memory, shapeVars, indexerVars, writerVars, scrollVars, debounceVars>>

\* what the steps of the scrolls leave alone
outsideScroll == <<memory, shapeVars, indexerVars, writerVars, upsertVars, debounceVars>>

\* what the steps of the debouncer leave alone
outsideDebounce == <<memory, shapeVars, indexerVars, writerVars, upsertVars, scrollVars>>

\* what the calls on the collection with manual memories leave alone
outsideMemory ==
    <<shapeVars, indexerVars, writerVars, upsertVars, scrollVars,
      debounceVars>>

vars ==
    <<memory, shapeVars, indexerVars, writerVars, upsertVars, scrollVars,
      debounceVars>>

\* ------------------------------------------------------------------------
\* File system
\* ------------------------------------------------------------------------
\* a file on disk: content 0 = absent
NoFile == [content |-> 0, mtime |-> 0]

Exists(d, f) == d[f].content # 0

\* _get_file_hash: SHA-256 of the bytes read; contents are numbered, distinct
\* contents have distinct digests and the digest of a content never is 0,
\* the stand-in for the "" that a missing state entry reads as
FileHash(d, f) == d[f].content

\* st_size of the file
FileSize(d, f) == 10 * d[f].content

\* _find_all_files: every file on disk passes the include/exclude globs and
\* the size gate (both files are small .py files outside excluded folders)
FindAllFiles(d) == {f \in Files : Exists(d, f)}

\* _get_current_state(files): relative path -> {hash, size, mtime}
GetCurrentState(d, files) ==
    [f \in {g \in files : Exists(d, g)} |->
        [hash |-> FileHash(d, f), size |-> FileSize(d, f), mtime |-> d[f].mtime]]

\* ------------------------------------------------------------------------
\* Parser (analysis/parser.py): entities, relations, implementation chunks
\* ------------------------------------------------------------------------
Entity(name, etype, path, ver) ==
    [name |-> name, entity_type |-> etype, file_path |-> path, ver |-> ver]

Relation(from, to, rtype, itype) ==
    [from_entity |-> from, to_entity |-> to, relation_type |-> rtype,
     import_type |-> itype]

ImplChunk(name, etype, path, ver, lines) ==
    [entity_name |-> name, entity_type |-> etype, file_path |-> path,
     ver |-> ver, lines |-> lines]

\* the definitions found by tree-sitter in file f with content c:
\*   a.py: def f (every content), class g(Base) (even contents only)
\*   b.py: def h, whose body is different in every content and which calls
\*         f and opens "data.json"; the file has "from .a import f"
CodeEntities(f, c) ==
    IF f = FileA
    THEN {Entity(FnF, "function", FullPath(f), 1)}
         \cup (IF c % 2 = 0 THEN {Entity(ClsG, "class", FullPath(f), 1)} ELSE {})
    ELSE {Entity(FnH, "function", FullPath(f), c)}

\* EntityFactory.create_file_entity(file_path, entity_count=len(entities))
FileEntity(f, c) ==
    Entity(FullPath(f), "file", FullPath(f), Cardinality(CodeEntities(f, c)))

ParseEntities(f, c) == {FileEntity(f, c)} \cup CodeEntities(f, c)

\* _extract_implementation_chunks: one chunk per function or class; the line
\* range of h moves with every edit of b.py
ParseChunks(f, c) ==
    {ImplChunk(e.name, e.entity_type, e.file_path, e.ver,
               IF e.name = FnH THEN c ELSE 1) : e \in CodeEntities(f, c)}

\* names called in the bodies (semantic_metadata.calls)
CalledNames(f, c) == IF f = FileB THEN {[caller |-> FnH, callee |-> FnF]} ELSE {}

\* _create_calls_relations_from_chunks: only calls whose callee is a name of
\* this file's entities or of the global names handed to the parser
CallsRelations(f, c, global_entity_names) ==
    LET all_entity_names ==
            {e.name : e \in CodeEntities(f, c)} \cup global_entity_names
    IN {Relation(k.caller, k.callee, "calls", NoName) :
            k \in {x \in CalledNames(f, c) : x.callee \in all_entity_names}}

\* inherits, module imports and file operations
OtherRelations(f, c) ==
    IF f = FileA
    THEN (IF c % 2 = 0 THEN {Relation(ClsG, BaseName, "inherits", NoName)} ELSE {})
    ELSE {Relation(FullPath(f), RelModA, "imports", <<"module">>),
          Relation(FullPath(f), DataJson, "imports", <<"file_open">>)}

\* create_contains_relation(file_name, entity.name) for every code entity
ContainsRelations(f, c) ==
    {Relation(FullPath(f), e.name, "contains", NoName) : e \in CodeEntities(f, c)}

ParseRelations(f, c, global_entity_names) ==
    OtherRelations(f, c) \cup CallsRelations(f, c, global_entity_names)
        \cup ContainsRelations(f, c)

\* ------------------------------------------------------------------------
\* Chunks and points (analysis/entities.py is not part of the sources; ids,
\* content hashes and the payload follow the documented chunk formats)
\* ------------------------------------------------------------------------
\* A point id is the first 16 hex digits of SHA-256 of the chunk id string;
\* the id string itself stands for it (distinct id strings, distinct ids).
Point(id, ctype, name, etype, path, target, rtype, itype, hash) ==
    [id |-> id, type |-> "chunk", chunk_type |-> ctype, entity_name |-> name,
     entity_type |-> etype, file_path |-> path, relation_target |-> target,
     relation_type |-> rtype, import_type |-> itype, content_hash |-> hash]

\* EntityChunk.create_metadata_chunk(entity, has_implementation)
\* id "{file_path}::{entity_type}::{entity_name}::metadata"
MetadataPoint(e, has_implementation) ==
    Point(<<e.file_path, e.entity_type, e.name, "metadata">>, "metadata",
          e.name, e.entity_type, e.file_path, NoName, "", NoName,
          <<"metadata", e.name, e.entity_type, e.ver, has_implementation>>)

\* implementation chunk, id suffixed by the digest over the line range
ImplementationPoint(ch) ==
    Point(<<ch.file_path, ch.entity_type, ch.entity_name, "implementation",
            ch.lines>>, "implementation",
          ch.entity_name, ch.entity_type, ch.file_path, NoName, "", NoName,
          <<"implementation", ch.entity_name, ch.entity_type, ch.ver>>)

\* RelationChunk.from_relation(relation).id
\* "{from_entity}::{relation_type}::{to_entity}" plus "::{import_type}"
RelationChunkId(r) ==
    IF r.import_type = NoName
    THEN <<r.from_entity, r.relation_type, r.to_entity>>
    ELSE <<r.from_entity, r.relation_type, r.to_entity, r.import_type>>

\* create_relation_chunk_point: entity_name = from, relation_target = to
RelationPoint(r) ==
    Point(RelationChunkId(r), "relation", r.from_entity, "relation", NoName,
          r.to_entity, r.relation_type, r.import_type,
          <<"relation", r.from_entity, r.relation_type, r.to_entity>>)

\* ------------------------------------------------------------------------
\* Vector store (storage/qdrant.py)
\* ------------------------------------------------------------------------
\* check_content_exists as if no chunk were ever known
CheckContentExistsNever(c, hash, lookup_fails) == FALSE

\* check_content_exists: some point carries this content_hash; a lookup that
\* raises is answered with False
CheckContentExists(c, hash, lookup_fails) ==
    IF lookup_fails THEN FALSE ELSE \E p \in c : p.content_hash = hash

\* an upsert that adds the points and replaces none
UpsertKeepsOld(c, points) == c \cup points

\* upsert: a point replaces the stored point with the same id
Upsert(c, points) ==
    {p \in c : \A q \in points : q.id # p.id} \cup points

\* delete_points(ids)
DeletePoints(c, ids) == {p \in c : p.id \notin ids}

\* a lookup that misses the file_path condition of the filter
FindEntitiesByNameOnly(c, path) == {p \in c : p.entity_name = path}

\* find_entities_for_file: should-filter file_path == path OR
\* entity_name == path
FindEntitiesForFile(c, path) ==
    {p \in c : p.file_path = path \/ p.entity_name = path}

IsRelationPoint(p) == p.type = "chunk" /\ p.chunk_type = "relation"

\* the extensions that mark a relation target as an external file
FileExtensions ==
    {<<"j","s","o","n">>, <<"c","s","v">>, <<"t","x","t">>, <<"x","m","l">>,
     <<"y","a","m","l">>, <<"y","m","l">>, <<"x","l","s","x">>,
     <<"x","l","s">>, <<"i","n","i">>, <<"t","o","m","l">>,
     <<"h","t","m","l">>, <<"c","s","s">>, <<"l","o","g">>, <<"m","d">>,
     <<"p","d","f">>, <<"d","o","c">>, <<"d","o","c","x">>, <<"p","n","g">>,
     <<"j","p","g">>, <<"j","p","e","g">>, <<"g","i","f">>, <<"s","v","g">>,
     <<"b","i","n">>, <<"d","a","t">>}

\* str.lower(); "B" is the only upper-case letter in the names of the model
Lower(s) == [i \in 1..Len(s) |-> IF s[i] = "B" THEN "b" ELSE s[i]]

DotPy == <<".", "p", "y">>

\* the relative-import branch shared by both resolve_module_name helpers
ResolveRelative(module_name, entity_names) ==
    LET clean_name == LStrip(module_name, ".")
        path_version == Replace(clean_name, ".", "/")
    IN \E entity_name \in entity_names :
        \/ EndsWith(entity_name, <<"/">> \o clean_name \o DotPy)
        \/ EndsWith(entity_name, <<"\\">> \o clean_name \o DotPy)
        \/ /\ Contains(clean_name, <<".">>)
           /\ \/ EndsWith(entity_name, <<"/">> \o path_version \o DotPy)
              \/ EndsWith(entity_name, <<"\\">> \o path_version \o DotPy)
        \/ Contains(entity_name, clean_name) /\ EndsWith(entity_name, DotPy)

\* the absolute dotted branch shared by both resolve_module_name helpers
ResolveAbsolute(module_name, entity_names) ==
    LET path_parts == Split(module_name, ".")
    IN \E entity_name \in entity_names :
        /\ \A i \in 1..Len(path_parts) : Contains(entity_name, path_parts[i])
        /\ EndsWith(entity_name, DotPy)
        /\ Contains(entity_name, path_parts[Len(path_parts)])

\* the bare package branch, present in the store's helper only
ResolvePackage(module_name, entity_names) ==
    \E entity_name \in entity_names :
        \/ Contains(entity_name, <<"/">> \o module_name \o <<"/">>)
        \/ Contains(entity_name, <<"\\">> \o module_name \o <<"\\">>)
        \/ EndsWith(entity_name, <<"/">> \o module_name)
        \/ EndsWith(entity_name, <<"\\">> \o module_name)

\* resolve_module_name inside QdrantStore._cleanup_orphaned_relations
StoreResolveModuleName(module_name, entity_names) ==
    \/ module_name \in entity_names
    \/ IF StartsWith(module_name, <<".">>)
       THEN ResolveRelative(module_name, entity_names)
       ELSE IF Contains(module_name, <<".">>)
       THEN ResolveAbsolute(module_name, entity_names)
       ELSE ResolvePackage(module_name, entity_names)

\* is_file_reference: the text after the last dot, lower-cased, is a known
\* extension
IsFileReference(to_entity) ==
    /\ to_entity # <<>>
    /\ Contains(to_entity, <<".">>)
    /\ LET parts == Split(to_entity, ".")
       IN Lower(parts[Len(parts)]) \in FileExtensions

\* entity_names of the sweep: entity_name of every point that is no relation
StoreEntityNames(c) ==
    {p.entity_name : p \in {q \in c : ~IsRelationPoint(q)}} \ {NoName}

\* the orphan test of QdrantStore._cleanup_orphaned_relations
IsOrphanRelation(p, entity_names) ==
    LET from_missing ==
            /\ p.entity_name \notin entity_names
            /\ ~StoreResolveModuleName(p.entity_name, entity_names)
        to_missing ==
            /\ p.relation_target \notin entity_names
            /\ ~StoreResolveModuleName(p.relation_target, entity_names)
    IN \/ from_missing
       \/ to_missing /\ ~IsFileReference(p.relation_target)

OrphanedRelations(c) ==
    LET entity_names == StoreEntityNames(c)
    IN {p \in {q \in c : IsRelationPoint(q)} :
            IsOrphanRelation(p, entity_names)}

\* a sweep that only looks at the source end of a relation
CleanupMissingSourcesOnly(c, delete_fails) ==
    IF delete_fails THEN c
    ELSE {p \in c :
            ~(/\ IsRelationPoint(p)
              /\ p.entity_name \notin StoreEntityNames(c)
              /\ ~StoreResolveModuleName(p.entity_name, StoreEntityNames(c)))}

\* QdrantStore._cleanup_orphaned_relations: one snapshot, one delete_points
\* call; when that call fails nothing is deleted and 0 is returned
CleanupOrphanedRelations(c, delete_fails) ==
    IF delete_fails THEN c
    ELSE DeletePoints(c, {p.id : p \in OrphanedRelations(c)})

\* ------------------------------------------------------------------------
\* State file (indexer.py)
\* ------------------------------------------------------------------------
\* the key of the optional statistics object
StatisticsKey == <<"_", "s", "t", "a", "t", "i", "s", "t", "i", "c", "s">>

\* the statistics object: a dict without hash, size or mtime
StatisticsEntry == [files_processed |-> "n", timestamp |-> "t"]

EmptyState == [k \in {} |-> NoFile]

NoStateFile == [exists |-> FALSE, data |-> EmptyState]

\* _load_state: {} when the file does not exist
LoadState(sf) == IF sf.exists THEN sf.data ELSE EmptyState

\* dict.copy() followed by update(other)
DictUpdate(base, other) ==
    [k \in DOMAIN base \cup DOMAIN other |->
        IF k \in DOMAIN other THEN other[k] ELSE base[k]]

\* del final_state[k] for every listed key that is present
DictRemove(base, keys) == [k \in DOMAIN base \ keys |-> base[k]]

\* state.get(key, {}).get("hash", ""), with 0 for ""
RecordedHash(state, key) ==
    IF key \in DOMAIN state /\ "hash" \in DOMAIN state[key]
    THEN state[key].hash ELSE 0

SetMax(S) == CHOOSE x \in S : \A y \in S : y <= x

\* _get_last_run_time: the largest mtime of the dict entries with an mtime
GetLastRunTime(previous_state) ==
    LET mtimes == {previous_state[k].mtime :
                     k \in {j \in DOMAIN previous_state :
                              "mtime" \in DOMAIN previous_state[j]}}
    IN IF mtimes = {} THEN 0 ELSE SetMax(mtimes \cup {0})

\* _find_files_since: all files when since_time <= 0, else st_mtime > since
FindFilesSince(d, since_time) ==
    IF since_time <= 0 THEN FindAllFiles(d)
    ELSE {f \in FindAllFiles(d) : d[f].mtime > since_time}

\* a changed-file test that takes every candidate for changed
HashDiffersEveryCandidate(d, previous_state, f) == TRUE

\* the test that puts a candidate into changed_files
HashDiffers(d, previous_state, f) ==
    FileHash(d, f) # RecordedHash(previous_state, f)

\* _find_changed_files -> (changed_files, deleted_files)
FindChangedFiles(d, sf) ==
    LET previous_state == LoadState(sf)
        last_run_time == GetLastRunTime(previous_state)
        candidate_files == FindFilesSince(d, last_run_time)
    IN [changed |-> {f \in candidate_files : HashDiffers(d, previous_state, f)},
        deleted |-> DOMAIN previous_state \ FindAllFiles(d)]

\* _update_state(all files, full_rebuild=True, deleted_files=None): the
\* fallback of a failed update; the state is rebuilt from a fresh scan of
\* every file on disk
RebuildFullState(sf, d, write_fails) ==
    IF write_fails THEN sf
    ELSE [exists |-> TRUE, data |-> GetCurrentState(d, FindAllFiles(d))]

\* an update that always rebuilds after its write
UpdateStateThenRebuild(sf, d, new_files, deleted_files, pre_captured_state, write_outcome, rebuild_outcome) ==
    [stateFile |-> RebuildFullState(sf, d, FALSE), writes |-> 2,
     failed |-> FALSE]

\* _update_state(new_files, full_rebuild=False, deleted_files,
\* pre_captured_state): merge, drop the deleted keys, _atomic_json_write,
\* read the file back. write_outcome is "ok", "write_fails" (the write
\* raises, the file keeps its content) or "verify_fails" (the read-back
\* raises after the rename); on either failure the handler logs and falls
\* back to the full rebuild, whose own failure is only logged.
UpdateState(sf, d, new_files, deleted_files, pre_captured_state, write_outcome, rebuild_outcome) ==
    LET existing_state == LoadState(sf)
        merged ==
            IF DOMAIN pre_captured_state # {}
            THEN DictUpdate(existing_state, pre_captured_state)
            ELSE DictUpdate(existing_state, GetCurrentState(d, new_files))
        final_state == [exists |-> TRUE, data |-> DictRemove(merged, deleted_files)]
        after_write == IF write_outcome = "write_fails" THEN sf ELSE final_state
        first_writes == IF write_outcome = "write_fails" THEN 0 ELSE 1
    IN IF write_outcome = "ok"
       THEN [stateFile |-> final_state, writes |-> 1, failed |-> FALSE]
       ELSE [stateFile |-> RebuildFullState(after_write, d,
                                            rebuild_outcome # "ok"),
             writes |-> first_writes + (IF rebuild_outcome = "ok" THEN 1 ELSE 0),
             failed |-> TRUE]

\* _save_statistics_to_state: load, set "_statistics", write
SaveStatisticsToState(sf) ==
    [exists |-> TRUE,
     data |-> DictUpdate(LoadState(sf),
                         [k \in {StatisticsKey} |-> StatisticsEntry])]

\* ------------------------------------------------------------------------
\* State-file writer (CoreIndexer._atomic_json_write)
\* ------------------------------------------------------------------------
\* <state_dir>/<collection>.json
StateFilePath == [stem |-> "collection", suffix |-> ".json"]

\* a writer that opens the target path itself
WithSuffixKept(file_path, suffix) == file_path

\* Path.with_suffix
WithSuffix(file_path, suffix) == [file_path EXCEPT !.suffix = suffix]

\* the paths of the state directory
Paths == {StateFilePath, WithSuffix(StateFilePath, ".tmp")}

\* a path without a file
Absent == [exists |-> FALSE, bytes |-> <<>>]

\* the keys of a state dict in the order in which json.dump writes them
KeyOrder == <<FileA, FileB>>

\* json.dump(data, f, indent=2) as the sequence of pieces that reach the file
RECURSIVE JsonEntries(_, _)
JsonEntries(data, keys) ==
    IF keys = <<>> THEN <<>>
    ELSE (IF Head(keys) \in DOMAIN data
          THEN << <<"entry", Head(keys), data[Head(keys)]>> >>
          ELSE <<>>) \o JsonEntries(data, Tail(keys))

JsonDump(data) == << <<"{">> >> \o JsonEntries(data, KeyOrder) \o << <<"}">> >>

\* a file holding the complete serialisation of data
CompleteFile(data) == [exists |-> TRUE, bytes |-> JsonDump(data)]

\* open(path, 'w'): creates the file or truncates it
OpenForWrite(f, path) == [f EXCEPT ![path] = [exists |-> TRUE, bytes |-> <<>>]]

\* one piece of the dump reaches the file
WritePiece(f, path, piece) ==
    [f EXCEPT ![path] = [exists |-> TRUE, bytes |-> Append(f[path].bytes, piece)]]

\* Path.rename: replaces the destination in one step
Rename(f, src, dst) ==
    IF src = dst THEN f ELSE [f EXCEPT ![dst] = f[src], ![src] = Absent]

\* Path.unlink
Unlink(f, path) == [f EXCEPT ![path] = Absent]

\* the state dicts handed to the writer
WritableStates ==
    {GetCurrentState(d, Files) :
        d \in [Files -> {NoFile} \cup {[content |-> c, mtime |-> 1] :
                                          c \in 1..MaxContent}]}

WriterIdle ==
    [pc |-> "idle", data |-> EmptyState, previous |-> Absent]

\* ------------------------------------------------------------------------
\* Unified content processor (processing/) and diff layers
\* ------------------------------------------------------------------------
\* id.split("::")[-1]: the text after the last "::" separator
RECURSIVE LastSegment(_, _)
LastSegment(s, cur) ==
    IF s = <<>> THEN cur
    ELSE IF Len(s) >= 2 /\ SubSeq(s, 1, 2) = <<":", ":">>
    THEN LastSegment(SubSeq(s, 3, Len(s)), <<>>)
    ELSE LastSegment(Tail(s), Append(cur, Head(s)))

\* f"{entity.file_path}::{entity.name}"
EntityId(e) == e.file_path \o <<":", ":">> \o e.name

\* _prepare_git_meta_context(...).changed_entity_ids: all entities handed in
ChangedEntityIds(entities) == {EntityId(e) : e \in entities}

\* SmartRelationsProcessor.filter_relations_for_changes: relations_to_update
FilterRelationsForChanges(all_relations, changed_entity_ids) ==
    LET changed_names == {LastSegment(id, <<>>) : id \in changed_entity_ids}
    IN {r \in all_relations :
            r.from_entity \in changed_names \/ r.to_entity \in changed_names}

\* EntityProcessor.process_batch: metadata chunks that pass the dedup gate
EntityPointsToEmbed(c, entities, implementation_chunks, lookup_fails) ==
    LET implementation_entity_names ==
            {ch.entity_name : ch \in implementation_chunks}
        chunks_to_process ==
            {MetadataPoint(e, e.name \in implementation_entity_names) :
                e \in entities}
    IN {p \in chunks_to_process :
          ~CheckContentExists(c, p.content_hash, lookup_fails)}

\* the ids that the entity phase adds to context.changed_entity_ids:
\* "{file_path}::{entity_name}" of every metadata chunk to embed
EmbeddedEntityIds(c, entities, implementation_chunks, lookup_fails) ==
    {p.file_path \o <<":", ":">> \o p.entity_name :
        p \in EntityPointsToEmbed(c, entities, implementation_chunks,
                                 lookup_fails)}

\* RelationProcessor.process_batch: smart filter, then one chunk per
\* relation chunk id; there is no dedup gate in this phase
RelationPointsToEmbed(relations, changed_entity_ids) ==
    LET relations_to_process ==
            IF changed_entity_ids # {}
            THEN FilterRelationsForChanges(relations, changed_entity_ids)
            ELSE relations
    IN {RelationPoint(r) : r \in relations_to_process}

\* ImplementationProcessor.process_batch: chunks that pass the dedup gate
ImplementationPointsToEmbed(c, implementation_chunks, lookup_fails) ==
    {p \in {ImplementationPoint(ch) : ch \in implementation_chunks} :
        ~CheckContentExists(c, p.content_hash, lookup_fails)}

\* the phases of process_all_content, named by the chunk type they embed
ChunkTypes == {"metadata", "relation", "implementation"}

\* ContentProcessor.create_points: a point for every item whose embedding
\* result is successful; the others are counted and skipped
CreatePoints(items, embed_fails) ==
    {p \in items : p.chunk_type \notin embed_fails}

\* EnhancedOrphanCleanup._entity_exists_with_current_hash: a metadata chunk
\* with this entity_name exists
EntityExistsWithCurrentHash(c, entity_name) ==
    /\ entity_name # NoName
    /\ \E p \in c : p.entity_name = entity_name /\ p.chunk_type = "metadata"

\* EnhancedOrphanCleanup.cleanup_hash_orphaned_relations
CleanupHashOrphanedRelations(c) ==
    LET orphaned_points ==
            {p.id : p \in {q \in c :
                /\ q.chunk_type = "relation"
                /\ \/ ~EntityExistsWithCurrentHash(c, q.entity_name)
                   \/ ~EntityExistsWithCurrentHash(c, q.relation_target)}}
    IN DeletePoints(c, orphaned_points)

\* UnifiedContentProcessor.process_all_content: the three phases build the
\* points against the collection as it is before the batch is stored; the
\* batch is one sub-batch (far below max_batch_size), stored entirely or,
\* when the upsert fails on every try, not at all; phase 5 runs the enhanced
\* cleanup when the cooldown timer has elapsed. embed_fails are the phases
\* whose embedding results come back with success = False: create_points
\* skips their chunks and the phase still returns a success result
ProcessAllContent(c, entities, relations, implementation_chunks, changed_entity_ids, lookup_fails, upsert_fails, cleanup_due, embed_fails) ==
    LET to_embed ==
            EntityPointsToEmbed(c, entities, implementation_chunks,
                                lookup_fails)
              \cup (IF relations # {}
                    THEN RelationPointsToEmbed(relations,
                             changed_entity_ids
                               \cup EmbeddedEntityIds(c, entities,
                                                      implementation_chunks,
                                                      lookup_fails))
                    ELSE {})
              \cup ImplementationPointsToEmbed(c, implementation_chunks,
                                               lookup_fails)
        all_points == CreatePoints(to_embed, embed_fails)
        stored == Upsert(c, all_points)
    IN IF all_points = {}
       THEN [success |-> TRUE, coll |-> c, embedded |-> to_embed,
             upserted |-> {}]
       ELSE IF upsert_fails
       THEN [success |-> FALSE, coll |-> c, embedded |-> to_embed,
             upserted |-> {}]
       ELSE [success |-> TRUE,
             coll |-> IF cleanup_due THEN CleanupHashOrphanedRelations(stored)
                      ELSE stored,
             embedded |-> to_embed, upserted |-> all_points]

\* ------------------------------------------------------------------------
\* Batch upsert with retry (storage/qdrant.py)
\* ------------------------------------------------------------------------
\* number of sub-batches of one upsert call
MaxBatches == 3

\* upsert_points passes max_retries=3
max_retries == 3

\* what one client.upsert call can do: return, raise a
\* ResponseHandlingException whose text says "timed out", raise another
\* ResponseHandlingException, raise any other exception
UpsertOutcomes == {"ok", "timed_out", "response_error", "unexpected_error"}

UpsertEvent(outcome) == [kind |-> "upsert", outcome |-> outcome, secs |-> 0]

SleepEvent(secs) == [kind |-> "sleep", outcome |-> "none", secs |-> secs]

\* a backoff that does not grow
WaitTimeFlat(attempt) == 1

\* wait_time = 2 ** attempt
WaitTime(attempt) == 2 ^ attempt

UpsertIdle ==
    [pc |-> "idle", batches |-> 0, batch_num |-> 0, attempt |-> 0,
     log |-> <<>>, result |-> "none", total_processed |-> 0,
     total_failed |-> 0, success |-> FALSE]

\* _reliable_batch_upsert when the sub-batch batch_num returns: the totals
\* are updated and the loop goes on to the next sub-batch, or to the count
\* verification after the last one
BatchReturns(u, log, ok) ==
    [u EXCEPT !.log = log,
              !.result = IF ok THEN "ok" ELSE "failed",
              !.total_processed = @ + (IF ok THEN 1 ELSE 0),
              !.total_failed = @ + (IF ok THEN 0 ELSE 1),
              !.attempt = 0,
              !.batch_num = @ + 1,
              !.pc = IF u.batch_num = u.batches THEN "verify" ELSE "batch"]

\* one pass through the body of the loop "for attempt in range(max_retries)"
\* of _upsert_batch_with_retry, for the given outcome of client.upsert
UpsertAttemptStep(u, outcome) ==
    LET started == IF u.attempt = 0 THEN <<>> ELSE u.log
        log == Append(started, UpsertEvent(outcome))
    IN IF ~(u.attempt < max_retries) THEN BatchReturns(u, started, FALSE)
       ELSE IF outcome = "ok" THEN BatchReturns(u, log, TRUE)
       ELSE IF outcome = "timed_out"
       THEN (IF u.attempt < max_retries - 1
             THEN [u EXCEPT !.log = Append(log, SleepEvent(WaitTime(u.attempt))),
                            !.result = "none",
                            !.attempt = @ + 1]
             ELSE BatchReturns(u, log, FALSE))
       ELSE BatchReturns(u, log, FALSE)

\* ------------------------------------------------------------------------
\* Paginated scrolls (storage/qdrant.py, indexer.py)
\* ------------------------------------------------------------------------
\* the offsets a backend hands to the entity-name scan are 1..MaxOffsets
MaxOffsets == 3

\* max_iterations of _scroll_collection
max_iterations == 1000

\* offset = None
NoOffset == 0

\* offset_key = str(next_offset)
OffsetKey(next_offset) == <<"str", next_offset>>

ScrollIdle ==
    [pc |-> "idle", handle_pagination |-> FALSE, offset |-> NoOffset,
     seen_offsets |-> {}, iteration |-> 0, calls |-> 0, stop |-> "none"]

\* one pass through the body of "while True" of _scroll_collection; raises
\* and next_offset are what client.scroll does in this pass
ScrollIteration(s, raises, next_offset) ==
    LET iteration == s.iteration + 1
        returned(why, calls) ==
            [ScrollIdle EXCEPT !.pc = "returned",
                               !.handle_pagination = s.handle_pagination,
                               !.iteration = iteration,
                               !.calls = calls, !.stop = why]
    IN IF iteration > max_iterations
       THEN returned("max_iterations", s.calls)
       ELSE IF raises THEN returned("error", s.calls + 1)
       ELSE IF s.handle_pagination /\ next_offset # NoOffset
       THEN (IF OffsetKey(next_offset) \in s.seen_offsets
             THEN returned("seen_offset", s.calls + 1)
             ELSE [s EXCEPT !.iteration = iteration,
                            !.calls = @ + 1,
                            !.seen_offsets = @ \cup {OffsetKey(next_offset)},
                            !.offset = next_offset])
       ELSE returned("complete", s.calls + 1)

\* the offsets a backend can answer with: none, one it gave before (the
\* first or the latest), or the next new one
BackendOffsets(s) ==
    {NoOffset, Cardinality(s.seen_offsets) + 1}
        \cup (IF s.seen_offsets = {} THEN {} ELSE {1, s.offset})

ScanIdle == [pc |-> "idle", next_page_offset |-> NoOffset]

\* one pass through the body of "while True" of _get_all_entity_names
ScanIteration(s, raises, no_points, next_page_offset) ==
    IF raises \/ no_points \/ next_page_offset = NoOffset
    THEN [pc |-> "returned", next_page_offset |-> NoOffset]
    ELSE [pc |-> "scanning", next_page_offset |-> next_page_offset]

\* ------------------------------------------------------------------------
\* Debouncer (watcher/debounce.py)
\* ------------------------------------------------------------------------
\* the clock runs from 0 to MaxClock
MaxClock == 3

\* events waiting in the queue of the debouncer
MaxQueue == 2

\* the debouncer is constructed with max_batch_size = MaxBatchSize
MaxBatchSize == 2

\* AsyncDebouncer(delay=2.0)
delay == 2

WatchedPaths == {"x.py", "y.py", "z.py"}

EventTypes == {"created", "modified", "deleted"}

\* no batch_event; stable_files keeps, next to the paths that a batch
\* delivers, the timestamps they were pending with
NoBatch ==
    [emitted |-> FALSE, modified_files |-> {}, deleted_files |-> {},
     stable_files |-> <<>>]

\* a path no event was handled for
NoEvent == [kind |-> "none", timestamp |-> 0, turned |-> FALSE]

\* _pending_files without the given paths
WithoutPaths(pending, paths) ==
    [p \in DOMAIN pending \ paths |-> pending[p]]

\* _handle_event with the delete branch leaving _pending_files alone
HandleEventKeepsPending(d, event) ==
    IF event.event_type = "deleted"
    THEN [d EXCEPT !.deleted = @ \cup {event.file_path}]
    ELSE [d EXCEPT !.pending =
                       [p \in DOMAIN @ \cup {event.file_path} |->
                           IF p = event.file_path THEN event.timestamp
                           ELSE @[p]],
                   !.deleted = @ \ {event.file_path}]

\* _handle_event
HandleEvent(d, event) ==
    IF event.event_type = "deleted"
    THEN [d EXCEPT !.deleted = @ \cup {event.file_path},
                   !.pending = WithoutPaths(@, {event.file_path})]
    ELSE [d EXCEPT !.pending =
                       [p \in DOMAIN @ \cup {event.file_path} |->
                           IF p = event.file_path THEN event.timestamp
                           ELSE @[p]],
                   !.deleted = @ \ {event.file_path}]

\* _flush_pending at current_time (the callback is set)
FlushPending(d, current_time) ==
    LET stable_files ==
            {p \in DOMAIN d.pending : current_time - d.pending[p] >= delay}
    IN IF stable_files # {} \/ d.deleted # {}
       THEN [d EXCEPT !.pending = WithoutPaths(@, stable_files),
                      !.deleted = {},
                      !.batch = [emitted |-> TRUE,
                                 modified_files |-> stable_files,
                                 deleted_files |-> d.deleted,
                                 stable_files |->
                                     [p \in stable_files |-> d.pending[p]]]]
       ELSE [d EXCEPT !.pending = WithoutPaths(@, stable_files)]

\* the record of the latest event of a path: its kind (a delete or a
\* change, that is a create or a modify), the timestamp of a change, and
\* whether it turned a pending modification into a delete mark or a delete
\* mark into a pending modification
Handled(d, before, event) ==
    [d EXCEPT !.handled[event.file_path] =
                  [kind |-> IF event.event_type = "deleted" THEN "deleted"
                            ELSE "changed",
                   timestamp |-> IF event.event_type = "deleted" THEN 0
                                 ELSE event.timestamp,
                   turned |-> IF event.event_type = "deleted"
                              THEN event.file_path \in DOMAIN before.pending
                              ELSE event.file_path \in before.deleted]]

\* the record of a path is dropped once a batch has taken the path
Emitted(d) ==
    [d EXCEPT !.handled =
        [p \in WatchedPaths |->
            IF p \in DOMAIN d.pending \/ p \in d.deleted THEN @[p]
            ELSE NoEvent]]

\* the state after construction
NewDebouncer ==
    [running |-> FALSE, max_batch_size |-> MaxBatchSize, pending |-> <<>>,
     deleted |-> {}, queue |-> <<>>, wait_start |-> 0, batch |-> NoBatch,
     handled |-> [p \in WatchedPaths |-> NoEvent]]

\* the loop of _process_events has something to do at this time: an event
\* in the queue, or the timeout of the wait has run out
LoopDue(d, now) ==
    d.running /\ (d.queue # <<>> \/ now - d.wait_start >= delay)

\* one turn of the loop of _process_events with an event from the queue:
\* the event is handled, and the pending files are flushed when there are
\* max_batch_size of them or more
LoopHandles(d, now) ==
    LET event == Head(d.queue)
        handled == Handled(HandleEvent([d EXCEPT !.queue = Tail(@),
                                                 !.wait_start = now,
                                                 !.batch = NoBatch],
                                       event), d, event)
    IN IF Cardinality(DOMAIN handled.pending) >= handled.max_batch_size
       THEN Emitted(FlushPending(handled, now))
       ELSE handled

\* one turn of the loop of _process_events when no event came for delay
\* seconds
LoopTimesOut(d, now) ==
    LET waiting == [d EXCEPT !.wait_start = now, !.batch = NoBatch]
    IN IF DOMAIN d.pending # {} \/ d.deleted # {}
       THEN Emitted(FlushPending(waiting, now))
       ELSE waiting

\* FileChangeCoalescer(delay=2.0) after construction; the timer thread has
\* begun its first sleep
NewCoalescer == [pending |-> <<>>, ready_batches |-> <<>>, sleep_start |-> 0]

\* add_change
AddChange(c, file_path, current_time) ==
    [c EXCEPT !.pending = [p \in DOMAIN @ \cup {file_path} |->
                              IF p = file_path THEN current_time ELSE @[p]]]

\* _check_and_move_ready_files
CheckAndMoveReadyFiles(c, current_time) ==
    LET ready_files ==
            {p \in DOMAIN c.pending : current_time - c.pending[p] >= delay}
    IN [c EXCEPT !.ready_batches = IF ready_files # {}
                                   THEN Append(@, ready_files)
                                   ELSE @,
                 !.pending = WithoutPaths(@, ready_files)]

\* the sleep of _timer_loop is over at this time
TimerDue(c, now) == now - c.sleep_start >= delay

\* what the callback of the debouncer is handed with a batch, next to the
\* timestamp
BatchEvent(batch) ==
    [modified_files |-> batch.modified_files,
     deleted_files |-> batch.deleted_files]

\* the batches delivered so far and the batch of the latest turn, if any
WithBatch(batches, d) ==
    IF d.batch.emitted THEN Append(batches, BatchEvent(d.batch)) ELSE batches

\* ------------------------------------------------------------------------
\* clear_collection (storage/qdrant.py)
\* ------------------------------------------------------------------------
\* a stored point: keys are the payload keys that are present, the value of
\* an absent key is empty
StoredPoint(id, keys, ctype, name, path, target, rtype) ==
    [id |-> id, keys |-> keys, type |-> "chunk", chunk_type |-> ctype,
     entity_name |-> name, file_path |-> path, relation_target |-> target,
     relation_type |-> rtype]

\* the points a collection can hold: the chunks of an indexed file, manual
\* entities (without file_path, or with an empty one), relations with the
\* full triple, and relation chunks that lack the relation_type key
MemoryPoints ==
    LET a == FullPath(FileA)
        entity == {"entity_name", "file_path"}
        manual == {"entity_name"}
        triple == {"entity_name", "relation_target", "relation_type"}
        partial == {"entity_name", "relation_target"}
    IN {StoredPoint(1, entity, "metadata", a, a, NoName, ""),
        StoredPoint(2, entity, "metadata", <<"f">>, a, NoName, ""),
        StoredPoint(3, triple, "relation", a, NoName, <<"f">>, "contains"),
        StoredPoint(4, manual, "metadata", <<"n">>, NoName, NoName, ""),
        StoredPoint(5, entity, "metadata", <<"i">>, NoName, NoName, ""),
        StoredPoint(6, triple, "relation", <<"n">>, NoName, <<"i">>, "relates"),
        StoredPoint(7, partial, "relation", <<"n">>, NoName, <<"i">>, ""),
        StoredPoint(8, partial, "relation", <<"n">>, NoName, <<"f">>, "")}

\* the test of clear_collection for an auto-generated point: a file_path
\* that is set, or the three keys of a relation
IsAutoGenerated(p) ==
    \/ "file_path" \in p.keys /\ p.file_path # NoName
    \/ {"entity_name", "relation_target", "relation_type"} \subseteq p.keys

\* clear_collection: all_points is what _scroll_collection returned (all
\* the points, fewer when the pagination was cut short, none when the scroll
\* raised), delete_raises the outcome of client.delete, sweep_fails that of
\* the delete call of the orphan sweep
ClearCollection(c, preserve_manual, all_points, delete_raises, sweep_fails) ==
    LET auto_generated_ids == {p.id : p \in {q \in all_points : IsAutoGenerated(q)}}
    IN IF ~preserve_manual
       THEN [success |-> ~delete_raises,
             coll |-> IF delete_raises THEN c ELSE {}]
       ELSE IF auto_generated_ids = {} THEN [success |-> TRUE, coll |-> c]
       ELSE IF delete_raises THEN [success |-> FALSE, coll |-> c]
       ELSE [success |-> TRUE,
             coll |-> CleanupOrphanedRelations(
                          DeletePoints(c, auto_generated_ids), sweep_fails)]

NoCall ==
    [op |-> "none", coll |-> {}, before |-> {}, preserve_manual |-> FALSE,
     success |-> FALSE, scrolled |-> {}]

\* ------------------------------------------------------------------------
\* CoreIndexer (indexer.py)
\* ------------------------------------------------------------------------
\* _cached_global_entities: set once per CoreIndexer instance
NotCached == [set |-> FALSE, names |-> {}]

\* _get_all_entity_names: scroll with must_not type == "relation"; the
\* entity_name of every returned point
GetAllEntityNames(c) ==
    {p.entity_name : p \in {q \in c : q.type # "relation"}} \ {NoName}

\* _prepare_git_meta_context: fills the cache when the attribute is absent
PrepareCache(ch, c) ==
    IF ch.set THEN ch ELSE [set |-> TRUE, names |-> GetAllEntityNames(c)]

\* resolve_module_name inside _filter_orphan_relations_in_memory
MemoryResolveModuleName(module_name, global_entity_names) ==
    \/ module_name \in global_entity_names
    \/ IF StartsWith(module_name, <<".">>)
       THEN ResolveRelative(module_name, global_entity_names)
       ELSE IF Contains(module_name, <<".">>)
       THEN ResolveAbsolute(module_name, global_entity_names)
       ELSE FALSE

\* the test of _filter_orphan_relations_in_memory for one relation
KeepRelationInMemory(r, global_entity_names) ==
    IF r.relation_type = "calls" THEN r.to_entity \in global_entity_names
    ELSE IF r.relation_type = "imports"
    THEN MemoryResolveModuleName(r.to_entity, global_entity_names)
    ELSE TRUE

\* _filter_orphan_relations_in_memory
FilterOrphanRelationsInMemory(relations, global_entity_names) ==
    IF global_entity_names = {} THEN relations
    ELSE {r \in relations : KeepRelationInMemory(r, global_entity_names)}

\* the error message _process_file_batch appends for a file whose parse
\* result is not successful
ParseErrorMessage(f) == <<"Failed to parse ">> \o f

\* index_project, line 349: the batch files whose path is an element of the
\* list of error messages
FailedFilesInBatch(batch, batch_errors) ==
    {f \in batch : FullPath(f) \in batch_errors}

\* _handle_deleted_files: per deleted key, look up the points of
\* project_path / key and delete them (a failing delete_points call deletes
\* nothing); sweep when at least one point was deleted
DeletedFilePointIds(c, deleted_files, delete_fails) ==
    UNION {{p.id : p \in FindEntitiesForFile(c, FullPath(k))} :
             k \in deleted_files \ delete_fails}

HandleDeletedFiles(c, deleted_files, delete_fails, sweep_fails) ==
    LET deleted_ids == DeletedFilePointIds(c, deleted_files, delete_fails)
        after == DeletePoints(c, deleted_ids)
    IN IF deleted_ids # {} THEN CleanupOrphanedRelations(after, sweep_fails)
       ELSE after

\* what index_project finds to do: (files_to_process, deleted_files)
FindWork(d, sf) ==
    IF sf.exists THEN FindChangedFiles(d, sf)
    ELSE [changed |-> FindAllFiles(d), deleted |-> {}]

\* index_project up to the state update, as one step: deletions, parsing,
\* the pre-storage filter, the pre-capture, storage and the final sweep. The
\* project is d when the files are parsed and d_snap when the pre-capture is
\* taken. The
\* inputs are the outcomes of the calls that can fail: parse_fails (files
\* whose parse result is unsuccessful), delete_fails (deleted keys whose
\* delete_points call fails), hd_sweep_fails and final_sweep_fails
\* (delete_points failing inside an orphan sweep), lookup_fails (the store
\* does not answer the content-hash lookups of the run), upsert_fails, and
\* cleanup_due (cooldown of the enhanced cleanup elapsed).
ParseAndStore(d, d_snap, sf, c, ch, parse_fails, delete_fails, hd_sweep_fails, lookup_fails, upsert_fails, cleanup_due, final_sweep_fails, embed_fails) ==
    LET incremental == sf.exists
        work == FindWork(d, sf)
        files_to_process == work.changed
        deleted_files == work.deleted
        c1 == IF incremental /\ deleted_files # {}
              THEN HandleDeletedFiles(c, deleted_files, delete_fails,
                                      hd_sweep_fails)
              ELSE c
        \* _process_file_batch
        ch1 == PrepareCache(ch, c1)
        parsed == files_to_process \ parse_fails
        all_entities == UNION {ParseEntities(f, d[f].content) : f \in parsed}
        parsed_relations ==
            UNION {ParseRelations(f, d[f].content, ch1.names) : f \in parsed}
        all_implementation_chunks ==
            UNION {ParseChunks(f, d[f].content) : f \in parsed}
        batch_errors == {ParseErrorMessage(f) : f \in parse_fails}
        failed_files == FailedFilesInBatch(files_to_process, batch_errors)
        \* pre-storage filter
        combined_entity_names ==
            GetAllEntityNames(c1) \cup {e.name : e \in all_entities}
        all_relations ==
            FilterOrphanRelationsInMemory(parsed_relations,
                                          combined_entity_names)
        \* pre-capture
        successfully_processed == files_to_process \ failed_files
        pre_captured_states == GetCurrentState(d_snap, successfully_processed)
        \* storage
        attempted ==
            all_entities # {} \/ all_relations # {}
                \/ all_implementation_chunks # {}
        stored ==
            IF attempted
            THEN ProcessAllContent(c1, all_entities, all_relations,
                     all_implementation_chunks, ChangedEntityIds(all_entities),
                     lookup_fails, upsert_fails, cleanup_due, embed_fails)
            ELSE [success |-> TRUE, coll |-> c1, embedded |-> {},
                  upserted |-> {}]
        swept == successfully_processed # {}
        c2 == IF swept
              THEN CleanupOrphanedRelations(stored.coll, final_sweep_fails)
              ELSE stored.coll
        deleted_ids ==
            IF incremental
            THEN DeletedFilePointIds(c, deleted_files, delete_fails) ELSE {}
        hd_sweep_failed ==
            /\ deleted_ids # {}
            /\ hd_sweep_fails
            /\ OrphanedRelations(DeletePoints(c, deleted_ids)) # {}
        final_sweep_failed ==
            /\ swept
            /\ final_sweep_fails
            /\ OrphanedRelations(stored.coll) # {}
        derived(f) ==
            {MetadataPoint(e, b).id :
                e \in ParseEntities(f, d[f].content), b \in BOOLEAN}
              \cup {ImplementationPoint(x).id : x \in ParseChunks(f, d[f].content)}
              \cup {RelationChunkId(r) :
                      r \in ParseRelations(f, d[f].content, ch1.names)}
        known(p) == \E q \in c1 : q.content_hash = p.content_hash
        candidates ==
            {MetadataPoint(e, e.name \in {x.entity_name :
                                            x \in all_implementation_chunks}) :
                e \in all_entities}
              \cup {ImplementationPoint(x) : x \in all_implementation_chunks}
              \cup {RelationPoint(r) : r \in all_relations}
        deleteFailed ==
            {k \in delete_fails : FindEntitiesForFile(c, FullPath(k)) # {}}
    IN [incremental |-> incremental,
        files_to_process |-> files_to_process,
        deleted_files |-> deleted_files,
        successfully_processed |-> successfully_processed,
        pre_captured_states |-> pre_captured_states,
        attempted |-> attempted,
        coll |-> IF files_to_process = {} THEN c1 ELSE c2,
        cached |-> IF files_to_process = {} THEN ch ELSE ch1,
        sweepFailed |-> IF files_to_process = {} THEN hd_sweep_failed
                        ELSE hd_sweep_failed \/ final_sweep_failed,
        info |->
          IF files_to_process = {}
          THEN [op |-> "run", incremental |-> incremental,
                success |-> TRUE, scheduled |-> {},
                deleted |-> deleted_files, parseFailed |-> {},
                failedFiles |-> {}, storage |-> "none",
                deleteFailed |-> deleteFailed,
                finalSweep |-> "none", prevState |-> sf,
                pointsDeleted |-> Cardinality(deleted_ids),
                parsedRelations |-> {}, embeddedFiles |-> {},
                upsertedFiles |-> {}, upserts |-> 0,
                embeddedKnown |-> {}, skippedKnown |-> {},
                lookupFailed |-> FALSE, staleCache |-> FALSE,
                parsedHash |-> EmptyState, embedSkipped |-> {}]
          ELSE [op |-> "run", incremental |-> incremental,
                success |-> stored.success,
                scheduled |-> files_to_process,
                deleted |-> deleted_files, parseFailed |-> parse_fails,
                failedFiles |-> failed_files,
                storage |-> IF ~attempted THEN "none"
                            ELSE IF stored.success THEN "ok" ELSE "failed",
                deleteFailed |-> deleteFailed,
                finalSweep |-> IF ~swept THEN "none"
                               ELSE IF final_sweep_failed
                               THEN "failed" ELSE "ok",
                prevState |-> sf,
                pointsDeleted |-> Cardinality(deleted_ids),
                parsedRelations |-> parsed_relations,
                embeddedFiles |->
                    {f \in FindAllFiles(d) :
                        {p.id : p \in stored.embedded} \cap derived(f) # {}},
                upsertedFiles |->
                    {f \in FindAllFiles(d) :
                        {p.id : p \in stored.upserted} \cap derived(f) # {}},
                upserts |-> Cardinality(stored.upserted),
                embeddedKnown |->
                    {p.chunk_type : p \in {q \in stored.embedded : known(q)}},
                skippedKnown |->
                    {p.chunk_type :
                        p \in {q \in candidates \ stored.embedded : known(q)}},
                lookupFailed |-> attempted /\ lookup_fails,
                staleCache |-> ch1.names # GetAllEntityNames(c1),
                parsedHash |-> [f \in parsed |-> FileHash(d, f)],
                embedSkipped |->
                    {f \in parsed :
                        {p.id : p \in stored.embedded
                                    \ CreatePoints(stored.embedded,
                                                   embed_fails)}
                          \cap derived(f) # {}}]]

\* the end of index_project: the state update over the outcome of the
\* steps before it. d is the disk when the run starts, d_late the disk when
\* the state is updated (the two differ when a file is edited while storage
\* is going on); write_outcome and rebuild_outcome are the outcomes of the
\* state write and of its fallback.
UpdateStateAfter(run, d, d_late, sf, write_outcome, rebuild_outcome) ==
    LET updated ==
            IF run.files_to_process = {}
            THEN (IF run.incremental /\ run.deleted_files # {}
                  THEN UpdateState(sf, d_late, {}, run.deleted_files,
                                   EmptyState, write_outcome, rebuild_outcome)
                  ELSE [stateFile |-> sf, writes |-> 0, failed |-> FALSE])
            ELSE (IF run.successfully_processed # {}
                  THEN UpdateState(sf, d_late, run.successfully_processed,
                           IF run.incremental THEN run.deleted_files ELSE {},
                           run.pre_captured_states, write_outcome,
                           rebuild_outcome)
                  ELSE [stateFile |-> sf, writes |-> 0, failed |-> FALSE])
        called ==
            IF run.files_to_process = {}
            THEN run.incremental /\ run.deleted_files # {}
            ELSE run.successfully_processed # {}
        edited_during_storage ==
            {f \in run.successfully_processed :
                run.attempted /\ d_late[f] # d[f]}
    IN [stateFile |-> updated.stateFile,
        coll |-> run.coll, cached |-> run.cached,
        sweepFailed |-> run.sweepFailed,
        info |-> run.info @@
                 [wrote |-> updated.writes > 0,
                  writes |-> updated.writes,
                  writeOutcome |-> IF called THEN write_outcome ELSE "none",
                  snapshot |-> IF run.files_to_process = {} THEN EmptyState
                               ELSE run.pre_captured_states,
                  editedDuringStorage |->
                      IF run.files_to_process = {} THEN {}
                      ELSE edited_during_storage]]

\* index_project as one step
RunIndexProject(d, d_snap, d_late, sf, c, ch, parse_fails, delete_fails, hd_sweep_fails, lookup_fails, upsert_fails, cleanup_due, final_sweep_fails, embed_fails, write_outcome, rebuild_outcome) ==
    UpdateStateAfter(
        ParseAndStore(d, d_snap, sf, c, ch, parse_fails, delete_fails,
                      hd_sweep_fails, lookup_fails, upsert_fails, cleanup_due,
                      final_sweep_fails, embed_fails),
        d_snap, d_late, sf, write_outcome, rebuild_outcome)

\* ------------------------------------------------------------------------
\* Two instances and one collection
\* ------------------------------------------------------------------------
\* the sub-batches of the model hold MaxSubBatch points (max_batch_size is
\* 1000 in the code)
MaxSubBatch == 2

\* pairs of runs that store at the same time, one pair after the other
MaxRounds == 2

Instances == {"A", "B"}

\* the project as an instance reads it: both files exist, each with one of
\* its contents
Views ==
    {[f \in Files |-> [content |-> content[f], mtime |-> 1]] :
        content \in [Files -> 1..MaxContent]}

\* the points that a full run of a fresh instance hands to batch_upsert for
\* the project d when the collection is c: _process_file_batch, the
\* pre-storage filter, and the three phases of process_all_content
PlannedPoints(d, c) ==
    LET files == FindAllFiles(d)
        global_entity_names == GetAllEntityNames(c)
        all_entities == UNION {ParseEntities(f, d[f].content) : f \in files}
        parsed_relations ==
            UNION {ParseRelations(f, d[f].content, global_entity_names) :
                     f \in files}
        all_implementation_chunks ==
            UNION {ParseChunks(f, d[f].content) : f \in files}
        all_relations ==
            FilterOrphanRelationsInMemory(parsed_relations,
                global_entity_names \cup {e.name : e \in all_entities})
    IN ProcessAllContent(c, all_entities, all_relations,
                         all_implementation_chunks,
                         ChangedEntityIds(all_entities), FALSE, TRUE,
                         FALSE, {}).embedded

\* the phase of process_all_content that creates the point
PhaseOf(p) ==
    IF p.chunk_type = "metadata" THEN 1
    ELSE IF p.chunk_type = "relation" THEN 2
    ELSE 3

\* all_points as a list: the points of phase 1, then those of phase 2, then
\* those of phase 3; within a phase the order is the parser's, for which
\* the model takes a fixed one
RECURSIVE InOrder(_)
InOrder(points) ==
    IF points = {} THEN <<>>
    ELSE LET first == CHOOSE p \in points :
                          \A q \in points : PhaseOf(p) <= PhaseOf(q)
         IN <<first>> \o InOrder(points \ {first})

\* _split_into_batches
SplitIntoBatches(points, batch_size) ==
    [i \in 1..((Len(points) + batch_size - 1) \div batch_size) |->
        SubSeq(points, (i - 1) * batch_size + 1,
               IF i * batch_size < Len(points) THEN i * batch_size
               ELSE Len(points))]

\* no instance is storing
NoWriters ==
    [rounds |-> 0, base |-> {}, coll |-> {},
     batches |-> [i \in Instances |-> <<>>],
     done |-> [i \in Instances |-> 0], interleaved |-> FALSE]

\* the points that instance i was handed for storage
Plan(w, i) == UNION {Range(w.batches[i][k]) : k \in DOMAIN w.batches[i]}

\* instance i has sent all its sub-batches
Returned(w, i) == w.done[i] = Len(w.batches[i])

\* instance i has sent some of its sub-batches and not all
Midway(w, i) == 0 < w.done[i] /\ ~Returned(w, i)

\* ------------------------------------------------------------------------
\* The state machine
\* ------------------------------------------------------------------------
\* nothing is known about a run after the project was edited
NoRun ==
    [op |-> "none", incremental |-> FALSE, success |-> TRUE, scheduled |-> {},
     deleted |-> {}, parseFailed |-> {}, failedFiles |-> {},
     storage |-> "none", deleteFailed |-> {}, finalSweep |-> "none",
     prevState |-> NoStateFile, pointsDeleted |-> 0, parsedRelations |-> {},
     embeddedFiles |-> {},
     upsertedFiles |-> {}, upserts |-> 0, embeddedKnown |-> {},
     skippedKnown |-> {}, lookupFailed |-> FALSE, staleCache |-> FALSE,
     parsedHash |-> EmptyState, embedSkipped |-> {},
     wrote |-> FALSE, writes |-> 0,
     writeOutcome |-> "none", snapshot |-> EmptyState,
     editedDuringStorage |-> {}]

\* an empty project, no state file, an empty collection, a fresh CoreIndexer
Init ==
    /\ fs = [path \in Paths |-> Absent]
    /\ writer = WriterIdle
    /\ upsert = UpsertIdle
    /\ scroll = ScrollIdle
    /\ scan = ScanIdle
    /\ deb = NewDebouncer
    /\ memory = NoCall
    /\ coal = NewCoalescer
    /\ delivered = <<>>
    /\ writers = NoWriters
    /\ clock = 0
    /\ disk = [f \in Files |-> NoFile]
    /\ stateFile = NoStateFile
    /\ coll = {}
    /\ cached = NotCached
    /\ sweepFailed = FALSE
    /\ last = NoRun
    /\ edits = 0
    /\ runs = 0

\* the user creates, rewrites, touches or deletes one file
EditFile ==
    /\ edits < MaxEdits
    /\ \E f \in Files, content \in 0..MaxContent, mtime \in 1..MaxTime :
        LET new == IF content = 0 THEN NoFile
                   ELSE [content |-> content, mtime |-> mtime]
        IN /\ new # disk[f]
           /\ disk' = [disk EXCEPT ![f] = new]
    /\ edits' = edits + 1
    /\ last' = NoRun
    /\ UNCHANGED <<stateFile, coll, cached, sweepFailed, runs, outsideIndexer>>

\* the outcomes of the fallible calls that one run can meet
ParseFaults(d, sf) == SUBSET FindWork(d, sf).changed

DeleteFaults(d, sf, c) ==
    SUBSET {k \in FindWork(d, sf).deleted :
              FindEntitiesForFile(c, FullPath(k)) # {}}

Outcomes(possible) == IF possible THEN BOOLEAN ELSE {FALSE}

\* the outcomes of the state write: none but "ok" when the run writes nothing
WriteOutcomes(updating) ==
    IF updating THEN {"ok", "write_fails", "verify_fails"} ELSE {"ok"}

RebuildOutcomes(write_outcome) ==
    IF write_outcome = "ok" THEN {"ok"} ELSE {"ok", "write_fails"}

\* one run of index_project over the current project; later_disks are the
\* shapes the disk can have when the pre-capture is taken (snap) and when
\* the state is updated (late); the embedder works
IndexProjectOver(later_disks) ==
    \E parse_fails \in ParseFaults(disk, stateFile),
       delete_fails \in DeleteFaults(disk, stateFile, coll) :
        LET work == FindWork(disk, stateFile)
            deleting == \E k \in work.deleted \ delete_fails :
                            FindEntitiesForFile(coll, FullPath(k)) # {}
            storing == work.changed \ parse_fails # {}
            updating == work.changed # {} \/ work.deleted # {}
        IN \E hd_sweep_fails \in Outcomes(deleting),
              lookup_fails \in Outcomes(storing),
              upsert_fails \in Outcomes(storing),
              final_sweep_fails \in Outcomes(work.changed # {}) :
            \E cleanup_due \in Outcomes(storing /\ ~upsert_fails) :
              \E later \in later_disks :
                \E run \in {ParseAndStore(disk, later.snap, stateFile, coll,
                                 cached, parse_fails, delete_fails,
                                 hd_sweep_fails, lookup_fails, upsert_fails,
                                 cleanup_due, final_sweep_fails, {})},
                   write_outcome \in WriteOutcomes(updating) :
                 \E rebuild_outcome \in RebuildOutcomes(write_outcome) :
                  \E r \in {UpdateStateAfter(run, later.snap, later.late,
                                 stateFile, write_outcome, rebuild_outcome)} :
                    /\ disk' = later.late
                    /\ stateFile' = r.stateFile
                    /\ coll' = r.coll
                    /\ cached' = r.cached
                    /\ sweepFailed' = (sweepFailed \/ r.sweepFailed)
                    /\ last' = r.info

\* CoreIndexer.index_project while nobody touches the project
IndexProject ==
    /\ runs < MaxRuns
    /\ IndexProjectOver({[snap |-> disk, late |-> disk]})
    /\ runs' = runs + 1
    /\ UNCHANGED <<edits, outsideIndexer>>

\* the disk after an editor rewrote, touched or deleted one of the files
EditedDisks(d, files) ==
    {[d EXCEPT ![f] = new] :
        f \in files,
        new \in ({NoFile} \cup [content : 1..MaxContent, mtime : 1..MaxTime])}
      \ {d}

\* CoreIndexer.index_project while an editor rewrites, touches or deletes a
\* file that the run is processing, after the pre-capture and before the
\* state update
IndexProjectDuringEdit ==
    /\ runs < MaxRuns
    /\ edits < MaxEdits
    /\ FindWork(disk, stateFile).changed # {}
    /\ IndexProjectOver(
           {[snap |-> disk, late |-> edited] :
               edited \in EditedDisks(disk,
                                      FindWork(disk, stateFile).changed)})
    /\ runs' = runs + 1
    /\ edits' = edits + 1
    /\ UNCHANGED outsideIndexer

\* CoreIndexer._save_statistics_to_state: the statistics of a run are saved after
\* the run
SaveStatistics ==
    /\ last.op = "run"
    /\ stateFile' = SaveStatisticsToState(stateFile)
    /\ stateFile' # stateFile
    /\ last' = NoRun
    /\ UNCHANGED <<disk, coll, cached, sweepFailed, edits, runs, outsideIndexer>>

\* the process ends and a new CoreIndexer is constructed
NewInstance ==
    /\ cached.set
    /\ cached' = NotCached
    /\ UNCHANGED <<disk, stateFile, coll, sweepFailed, last, edits, runs,
                   outsideIndexer>>

Next ==
    \/ EditFile
    \/ IndexProject
    \/ SaveStatistics
    \/ NewInstance

Spec == Init /\ [][Next]_vars

\* the indexer next to an editor that writes while every run is storing
NextUnquietDisk ==
    \/ EditFile
    \/ IndexProjectDuringEdit

SpecUnquietDisk == Init /\ [][NextUnquietDisk]_vars

\* CoreIndexer.index_project while an editor rewrites, touches or deletes a
\* file that the run is processing, after the file was parsed and before
\* the pre-capture
IndexProjectAfterEdit ==
    /\ runs < MaxRuns
    /\ edits < MaxEdits
    /\ FindWork(disk, stateFile).changed # {}
    /\ IndexProjectOver(
           {[snap |-> edited, late |-> edited] :
               edited \in EditedDisks(disk,
                                      FindWork(disk, stateFile).changed)})
    /\ runs' = runs + 1
    /\ edits' = edits + 1
    /\ UNCHANGED outsideIndexer

\* the project is edited between the parsing and the pre-capture of a run
NextEditAfterParse ==
    \/ EditFile
    \/ IndexProjectAfterEdit

SpecEditAfterParse == Init /\ [][NextEditAfterParse]_vars

\* CoreIndexer.index_project with an embedder that can return unsuccessful
\* results for the chunks of any phase, while nobody touches the project
\* and every other call succeeds
IndexProjectWithEmbedder ==
    /\ runs < MaxRuns
    /\ \E embed_fails \in SUBSET ChunkTypes :
        \E r \in {RunIndexProject(disk, disk, disk, stateFile, coll, cached,
                       {}, {}, FALSE, FALSE, FALSE, FALSE, FALSE,
                       embed_fails, "ok", "ok")} :
            /\ stateFile' = r.stateFile
            /\ coll' = r.coll
            /\ cached' = r.cached
            /\ sweepFailed' = (sweepFailed \/ r.sweepFailed)
            /\ last' = r.info
    /\ runs' = runs + 1
    /\ UNCHANGED <<disk, edits, outsideIndexer>>

\* the indexer with an embedder that fails in some runs and works in others
NextEmbedder ==
    \/ EditFile
    \/ IndexProjectWithEmbedder

SpecEmbedder == Init /\ [][NextEmbedder]_vars

\* CoreIndexer.index_project with every call succeeding and the cleanup
\* cooldown not elapsed, while nobody touches the project
IndexProjectUndisturbed ==
    /\ runs < MaxRuns
    /\ \E r \in {RunIndexProject(disk, disk, disk, stateFile, coll, cached,
                       {}, {}, FALSE, FALSE, FALSE, FALSE, FALSE, {},
                       "ok", "ok")} :
            /\ stateFile' = r.stateFile
            /\ coll' = r.coll
            /\ cached' = r.cached
            /\ sweepFailed' = (sweepFailed \/ r.sweepFailed)
            /\ last' = r.info
    /\ runs' = runs + 1
    /\ UNCHANGED <<disk, edits, outsideIndexer>>

\* CoreIndexer.index_project when the process stops after the deletions and
\* the storage of the run and before _update_state: the collection is as the
\* run left it, the state file is untouched, and the next run is made by a
\* new CoreIndexer. The record keeps what the run would have left had it
\* reached its end.
IndexProjectInterrupted ==
    /\ runs < MaxRuns
    /\ \E run \in {ParseAndStore(disk, disk, stateFile, coll, cached, {}, {},
                        FALSE, FALSE, FALSE, FALSE, FALSE, {})} :
        \E whole \in {UpdateStateAfter(run, disk, disk, stateFile,
                                       "ok", "ok")} :
            /\ run.files_to_process # {} \/ run.deleted_files # {}
            /\ coll' = run.coll
            /\ sweepFailed' = (sweepFailed \/ run.sweepFailed)
            /\ last' = [NoRun EXCEPT !.op = "interrupted"]
                          @@ [expectColl |-> whole.coll,
                              expectState |-> whole.stateFile]
    /\ cached' = NotCached
    /\ runs' = runs + 1
    /\ UNCHANGED <<disk, stateFile, edits, outsideIndexer>>

\* the indexer in a process that can stop before the state file is written
NextInterrupted ==
    \/ EditFile
    \/ IndexProjectUndisturbed
    \/ IndexProjectInterrupted

SpecInterrupted == Init /\ [][NextInterrupted]_vars

\* ------------------------------------------------------------------------
\* The writer step by step: _atomic_json_write(file_path, data)
\* ------------------------------------------------------------------------
\* temp_file = file_path.with_suffix('.tmp'); open(temp_file, 'w')
BeginAtomicWrite ==
    /\ writer.pc = "idle"
    /\ \E data \in WritableStates :
        /\ fs' = OpenForWrite(fs, WithSuffix(StateFilePath, ".tmp"))
        /\ writer' = [pc |-> "dumping", data |-> data,
                      previous |-> fs[StateFilePath]]
    /\ UNCHANGED outsideWriter

\* json.dump: the next piece is written
DumpPiece ==
    /\ writer.pc = "dumping"
    /\ LET temp_file == WithSuffix(StateFilePath, ".tmp")
           dump == JsonDump(writer.data)
           written == Len(fs[temp_file].bytes)
       IN /\ written < Len(dump)
          /\ fs' = WritePiece(fs, temp_file, dump[written + 1])
    /\ UNCHANGED <<writer, outsideWriter>>

\* the with-block closes the file; temp_file.rename(file_path)
CloseAndRename ==
    /\ writer.pc = "dumping"
    /\ LET temp_file == WithSuffix(StateFilePath, ".tmp")
       IN /\ fs[temp_file].bytes = JsonDump(writer.data)
          /\ fs' = Rename(fs, temp_file, StateFilePath)
    /\ writer' = [writer EXCEPT !.pc = "idle"]
    /\ UNCHANGED outsideWriter

\* an exception inside the try block: the handler unlinks the temp file and
\* raises RuntimeError
WriteError ==
    /\ writer.pc = "dumping"
    /\ fs' = Unlink(fs, WithSuffix(StateFilePath, ".tmp"))
    /\ writer' = [writer EXCEPT !.pc = "idle"]
    /\ UNCHANGED outsideWriter

\* the process is killed: no handler runs, the files stay as they are
WriterInterrupted ==
    /\ writer.pc = "dumping"
    /\ writer' = [writer EXCEPT !.pc = "idle"]
    /\ UNCHANGED <<fs, outsideWriter>>

NextWriter ==
    \/ BeginAtomicWrite
    \/ DumpPiece
    \/ CloseAndRename
    \/ WriteError
    \/ WriterInterrupted

SpecWriter == Init /\ [][NextWriter]_vars

\* _scroll_collection is called (the caller's thread is in neither loop)
ScrollCollection ==
    /\ scroll.pc \in {"idle", "returned"}
    /\ scan.pc \in {"idle", "returned"}
    /\ \E handle_pagination \in BOOLEAN :
        scroll' = [ScrollIdle EXCEPT !.pc = "scrolling",
                                     !.handle_pagination = handle_pagination]
    /\ UNCHANGED <<scan, outsideScroll>>

\* one page of _scroll_collection
ScrollPage ==
    /\ scroll.pc = "scrolling"
    /\ \E raises \in BOOLEAN, next_offset \in BackendOffsets(scroll) :
        scroll' = ScrollIteration(scroll, raises, next_offset)
    /\ UNCHANGED <<scan, outsideScroll>>

\* _get_all_entity_names is called
ScanEntityNames ==
    /\ scan.pc \in {"idle", "returned"}
    /\ scroll.pc \in {"idle", "returned"}
    /\ scan' = [ScanIdle EXCEPT !.pc = "scanning"]
    /\ UNCHANGED <<scroll, outsideScroll>>

\* one page of _get_all_entity_names
ScanPage ==
    /\ scan.pc = "scanning"
    /\ \E raises \in BOOLEAN, no_points \in BOOLEAN,
          next_page_offset \in 0..MaxOffsets :
        scan' = ScanIteration(scan, raises, no_points, next_page_offset)
    /\ UNCHANGED <<scroll, outsideScroll>>

NextScroll ==
    \/ ScrollCollection
    \/ ScrollPage
    \/ ScanEntityNames
    \/ ScanPage

\* both loops are sequential code: a started loop takes its next pass
SpecScroll ==
    /\ Init
    /\ [][NextScroll]_vars
    /\ WF_vars(ScrollPage)
    /\ WF_vars(ScanPage)

\* AsyncDebouncer.start
StartDebouncer ==
    /\ ~deb.running
    /\ deb' = [deb EXCEPT !.running = TRUE, !.wait_start = clock,
                          !.batch = NoBatch]
    /\ UNCHANGED <<clock, outsideDebounce>>

\* AsyncDebouncer.stop: flush, cancel the task, whose handler flushes again
StopDebouncer ==
    /\ deb.running
    /\ deb' = Emitted(FlushPending(FlushPending(
                           [deb EXCEPT !.running = FALSE, !.batch = NoBatch],
                           clock), clock))
    /\ UNCHANGED <<clock, outsideDebounce>>

\* AsyncDebouncer.add_file_event, called by the event source of a started
\* debouncer
AddFileEvent ==
    /\ deb.running
    /\ Len(deb.queue) < MaxQueue
    /\ \E file_path \in WatchedPaths, event_type \in EventTypes :
        deb' = [deb EXCEPT !.queue =
                    Append(@, [file_path |-> file_path,
                               event_type |-> event_type,
                               timestamp |-> clock])]
    /\ UNCHANGED <<clock, outsideDebounce>>

\* _process_events: an event comes out of the queue, is handled, and the
\* pending files are flushed when there are max_batch_size of them or more
ProcessEvent ==
    /\ deb.running
    /\ deb.queue # <<>>
    /\ deb' = LoopHandles(deb, clock)
    /\ UNCHANGED <<clock, outsideDebounce>>

\* _process_events: no event came for delay seconds
WaitTimeout ==
    /\ deb.running
    /\ deb.queue = <<>>
    /\ clock - deb.wait_start >= delay
    /\ deb' = LoopTimesOut(deb, clock)
    /\ UNCHANGED <<clock, outsideDebounce>>

\* a second passes; the running loop does what is due before it does
Tick ==
    /\ clock < MaxClock
    /\ ~LoopDue(deb, clock)
    /\ clock' = clock + 1
    /\ UNCHANGED <<deb, outsideDebounce>>

NextDebounce ==
    \/ StartDebouncer
    \/ StopDebouncer
    \/ AddFileEvent
    \/ ProcessEvent
    \/ WaitTimeout
    \/ Tick

SpecDebounce == Init /\ [][NextDebounce]_vars

\* _flush_pending awaits the callback it has handed the batch to: a second
\* passes while the callback runs, and the loop takes nothing from the
\* queue in the meantime
CallbackRuns ==
    /\ deb.running
    /\ deb.batch.emitted
    /\ clock < MaxClock
    /\ clock' = clock + 1
    /\ UNCHANGED <<deb, outsideDebounce>>

\* the debouncer with a callback that takes time
NextBusyCallback ==
    \/ StartDebouncer
    \/ AddFileEvent
    \/ ProcessEvent
    \/ WaitTimeout
    \/ Tick
    \/ CallbackRuns

SpecBusyCallback == Init /\ [][NextBusyCallback]_vars

\* what the two shapes leave alone
outsideShapes ==
    <<memory, writers, indexerVars, writerVars, upsertVars, scrollVars>>

\* a file is created or modified: add_file_event of the debouncer and
\* add_change of the coalescer, which takes no event type, are called with
\* the path at the same time, after the timeout of the loop and the timer
\* have done what is due at that time
FileChanged ==
    /\ deb.running
    /\ Len(deb.queue) < MaxQueue
    /\ ~LoopDue([deb EXCEPT !.queue = <<>>], clock)
    /\ ~TimerDue(coal, clock)
    /\ \E file_path \in WatchedPaths, event_type \in {"created", "modified"} :
        /\ deb' = [deb EXCEPT !.queue =
                       Append(@, [file_path |-> file_path,
                                  event_type |-> event_type,
                                  timestamp |-> clock])]
        /\ coal' = AddChange(coal, file_path, clock)
    /\ UNCHANGED <<clock, delivered, outsideShapes>>

\* _process_events takes an event from the queue
DebouncerHandles ==
    /\ deb.running
    /\ deb.queue # <<>>
    /\ deb' = LoopHandles(deb, clock)
    /\ delivered' = WithBatch(delivered, deb')
    /\ UNCHANGED <<clock, coal, outsideShapes>>

\* _process_events: no event came for delay seconds
DebouncerTimesOut ==
    /\ deb.running
    /\ deb.queue = <<>>
    /\ clock - deb.wait_start >= delay
    /\ deb' = LoopTimesOut(deb, clock)
    /\ delivered' = WithBatch(delivered, deb')
    /\ UNCHANGED <<clock, coal, outsideShapes>>

\* _timer_loop: the sleep is over, the ready files are moved, and the next
\* sleep begins
TimerWakes ==
    /\ TimerDue(coal, clock)
    /\ coal' = [CheckAndMoveReadyFiles(coal, clock)
                   EXCEPT !.sleep_start = clock]
    /\ UNCHANGED <<clock, deb, delivered, outsideShapes>>

\* a second passes; the loop and the timer do what is due before it does
TickBoth ==
    /\ clock < MaxClock
    /\ ~LoopDue(deb, clock)
    /\ ~TimerDue(coal, clock)
    /\ clock' = clock + 1
    /\ UNCHANGED <<deb, coal, delivered, outsideShapes>>

\* the two shapes of the coalescer side by side, under the same events
NextShapes ==
    \/ StartDebouncer
    \/ FileChanged
    \/ DebouncerHandles
    \/ DebouncerTimesOut
    \/ TimerWakes
    \/ TickBoth

SpecShapes == Init /\ [][NextShapes]_vars

\* what the two instances leave alone
outsideWriters ==
    <<memory, coal, delivered, indexerVars, writerVars, upsertVars,
      scrollVars, debounceVars>>

\* two instances, each with its own reading of the project, reach
\* batch_upsert with the points they built against the collection as it is
\* now, split into sub-batches
BeginUpserts ==
    /\ writers.rounds < MaxRounds
    /\ \A i \in Instances : Returned(writers, i)
    /\ \E view \in [Instances -> Views] :
        writers' =
            [rounds |-> writers.rounds + 1,
             base |-> writers.coll,
             coll |-> writers.coll,
             batches |->
                 [i \in Instances |->
                     SplitIntoBatches(
                         InOrder(PlannedPoints(view[i], writers.coll)),
                         MaxSubBatch)],
             done |-> [i \in Instances |-> 0],
             interleaved |-> FALSE]
    /\ UNCHANGED outsideWriters

\* _reliable_batch_upsert of one instance sends its next sub-batch
SubBatchUpsert ==
    /\ \E i \in Instances :
        /\ ~Returned(writers, i)
        /\ writers' =
              [writers EXCEPT
                  !.coll = Upsert(@, Range(writers.batches[i][writers.done[i] + 1])),
                  !.done[i] = @ + 1,
                  !.interleaved =
                      @ \/ \E j \in Instances \ {i} : Midway(writers, j)]
    /\ UNCHANGED outsideWriters

NextWriters ==
    \/ BeginUpserts
    \/ SubBatchUpsert

SpecWriters == Init /\ [][NextWriters]_vars

\* index runs and manual memories have filled the collection
FillCollection ==
    /\ memory.op = "none"
    /\ \E c \in SUBSET MemoryPoints :
        memory' = [NoCall EXCEPT !.op = "fill", !.coll = c]
    /\ UNCHANGED outsideMemory

\* QdrantStore.clear_collection
ClearCollectionCall ==
    /\ memory.op = "fill"
    /\ \E preserve_manual \in BOOLEAN, delete_raises \in BOOLEAN,
          sweep_fails \in BOOLEAN, all_points \in SUBSET memory.coll :
        LET r == ClearCollection(memory.coll, preserve_manual, all_points,
                                 delete_raises, sweep_fails)
        IN memory' = [op |-> "clear", coll |-> r.coll,
                      before |-> memory.coll,
                      preserve_manual |-> preserve_manual,
                      success |-> r.success,
                      scrolled |-> all_points]
    /\ UNCHANGED outsideMemory

NextMemory ==
    \/ FillCollection
    \/ ClearCollectionCall

SpecMemory == Init /\ [][NextMemory]_vars

\* _reliable_batch_upsert is called: the points are split into sub-batches
ReliableBatchUpsert ==
    /\ upsert.pc \in {"idle", "done"}
    /\ \E n \in 1..MaxBatches :
        upsert' = [UpsertIdle EXCEPT !.pc = "batch", !.batches = n,
                                     !.batch_num = 1]
    /\ UNCHANGED outsideUpsert

\* one attempt of _upsert_batch_with_retry for the current sub-batch
UpsertAttempt ==
    /\ upsert.pc = "batch"
    /\ \E outcome \in UpsertOutcomes :
        upsert' = UpsertAttemptStep(upsert, outcome)
    /\ UNCHANGED outsideUpsert

\* _verify_storage_count and the overall result
VerifyAndReturn ==
    /\ upsert.pc = "verify"
    /\ \E verified \in BOOLEAN :
        upsert' = [upsert EXCEPT !.pc = "done",
                                 !.success = (upsert.total_failed = 0
                                                /\ verified)]
    /\ UNCHANGED outsideUpsert

NextUpsert ==
    \/ ReliableBatchUpsert
    \/ UpsertAttempt
    \/ VerifyAndReturn

\* the calls of the loop are sequential code: a started call goes on
SpecUpsert ==
    /\ Init
    /\ [][NextUpsert]_vars
    /\ WF_vars(UpsertAttempt)
    /\ WF_vars(VerifyAndReturn)

\* ------------------------------------------------------------------------
\* Claims
\* ------------------------------------------------------------------------
\* the entry of key k is the same in both state files (or absent from both)
SameEntry(sf1, sf2, k) ==
    LET s1 == LoadState(sf1)
        s2 == LoadState(sf2)
    IN /\ (k \in DOMAIN s1) = (k \in DOMAIN s2)
       /\ k \in DOMAIN s1 => s1[k] = s2[k]

\* C1: when parsing a file fails during an index_project run, the state
\* file after the run has no new or updated entry for that file.
C1_ParseFailureWritesNoEntry ==
    last.op = "run" =>
        \A f \in last.parseFailed : SameEntry(stateFile, last.prevState, f)

\* C2: when the storage step of a run reports failure, no file processed in
\* that run has its state-file entry added or updated.
C2_StorageFailureWritesNoEntry ==
    (last.op = "run" /\ last.storage = "failed") =>
        \A f \in last.scheduled : SameEntry(stateFile, last.prevState, f)

\* the points that the current content of file f produces
CurrentFilePoints(d, f) ==
    LET chunks == ParseChunks(f, d[f].content)
    IN {MetadataPoint(e, e.name \in {x.entity_name : x \in chunks}) :
            e \in ParseEntities(f, d[f].content)}
         \cup {ImplementationPoint(x) : x \in chunks}

\* the files on disk that are absent from the state or whose hash differs
\* from the recorded hash
ChangedSinceState(d, sf) ==
    {f \in FindAllFiles(d) :
        \/ f \notin DOMAIN LoadState(sf)
        \/ FileHash(d, f) # LoadState(sf)[f].hash}

\* the tracked files of a state file (the keys that are file paths)
TrackedFiles(sf) == DOMAIN LoadState(sf) \cap Files

\* C3: after an incremental run that re-processed a previously tracked file
\* whose hash changed, the collection holds for that file only points
\* produced from its current content.
C3_ReprocessingReplacesFilePoints ==
    (last.op = "run" /\ last.incremental /\ last.storage = "ok") =>
        \A f \in (last.scheduled \ last.parseFailed)
                    \cap TrackedFiles(last.prevState) :
            \A p \in coll :
                p.file_path = FullPath(f) => p \in CurrentFilePoints(disk, f)

\* C4: an incremental run schedules exactly the files on disk that are
\* absent from the state file or whose hash differs from the recorded one;
\* when the only change is n new files, the state file gains n entries.
C4_SchedulesExactlyChangedFiles ==
    (last.op = "run" /\ last.incremental) =>
        /\ last.scheduled = ChangedSinceState(disk, last.prevState)
        /\ (/\ TrackedFiles(last.prevState) \subseteq FindAllFiles(disk)
            /\ \A f \in TrackedFiles(last.prevState) :
                   FileHash(disk, f) = LoadState(last.prevState)[f].hash)
           => Cardinality(TrackedFiles(stateFile))
                = Cardinality(TrackedFiles(last.prevState))
                    + Cardinality(FindAllFiles(disk)
                                    \ TrackedFiles(last.prevState))

\* the files that are on disk, tracked, and whose hash equals the recorded one
UnchangedFiles(d, sf) ==
    {f \in FindAllFiles(d) \cap TrackedFiles(sf) :
        FileHash(d, f) = LoadState(sf)[f].hash}

\* C5: an incremental run makes no embedding request and writes no point
\* for a file whose content hash is unchanged since the state file was
\* written.
C5_UnchangedFileNotEmbedded ==
    (last.op = "run" /\ last.incremental) =>
        \A f \in UnchangedFiles(disk, last.prevState) :
            f \notin last.embeddedFiles /\ f \notin last.upsertedFiles

\* an incremental run that stored points of a changed file while another
\* file, touched since the last run (newer mtime, same hash), was left alone
C5_Witness ==
    /\ last.op = "run" /\ last.incremental /\ last.upserts > 0
    /\ \E f \in UnchangedFiles(disk, last.prevState) :
          disk[f].mtime > GetLastRunTime(LoadState(last.prevState))

\* no file was changed, added or deleted since the state file was written
NothingChanged(d, sf) ==
    /\ FindAllFiles(d) = TrackedFiles(sf)
    /\ UnchangedFiles(d, sf) = TrackedFiles(sf)

\* C6: an incremental run over a project with no changed, new or deleted
\* file performs no upsert and leaves the state file as it was, with or
\* without the _statistics object in it.
C6_NoChangeRunLeavesStateFile ==
    (last.op = "run" /\ last.incremental
        /\ NothingChanged(disk, last.prevState)) =>
        /\ last.upserts = 0
        /\ ~last.wrote
        /\ stateFile = last.prevState

\* the points that belong to file k: file_path = k, or the File entity k
PointsOfFile(c, k) ==
    {p \in c : \/ p.file_path = FullPath(k)
               \/ p.entity_type = "file" /\ p.entity_name = FullPath(k)}

DeletedTracked(d, sf) == TrackedFiles(sf) \ FindAllFiles(d)

\* C8: after an incremental run that observed the deletion of k tracked
\* files and no other change, the state file has lost those k entries, has
\* kept the entry of every other tracked file, and is smaller by exactly k.
C8_DeletionShrinksStateByK ==
    (/\ last.op = "run" /\ last.incremental
     /\ DeletedTracked(disk, last.prevState) # {}
     /\ FindAllFiles(disk) \subseteq TrackedFiles(last.prevState)
     /\ UnchangedFiles(disk, last.prevState) = FindAllFiles(disk)) =>
        /\ TrackedFiles(stateFile) = FindAllFiles(disk)
        /\ \A f \in FindAllFiles(disk) : SameEntry(stateFile, last.prevState, f)
        /\ Cardinality(DOMAIN LoadState(stateFile))
             = Cardinality(DOMAIN LoadState(last.prevState))
                 - Cardinality(DeletedTracked(disk, last.prevState))

C10_ResolvableRelationsKept ==
    (last.op = "run" /\ last.storage = "ok") =>
        \A r \in last.parsedRelations :
            ~IsOrphanRelation(RelationPoint(r), StoreEntityNames(coll))
                => \E p \in coll : p.id = RelationChunkId(r)

\* C11: at every point of the temp-write-then-rename sequence, interrupted or
\* not, the state file path holds the complete previous state or the
\* complete new state, never a truncated file.
C11_StatePathAlwaysComplete ==
    fs[StateFilePath] \in {writer.previous, CompleteFile(writer.data)}

\* a writer was killed in the middle of the dump over an existing state file
C11_Witness ==
    /\ writer.pc = "idle"
    /\ fs[StateFilePath].exists
    /\ fs[WithSuffix(StateFilePath, ".tmp")].exists
    /\ Len(fs[WithSuffix(StateFilePath, ".tmp")].bytes) \in
           1..(Len(JsonDump(writer.data)) - 1)
    /\ fs[StateFilePath] # CompleteFile(writer.data)

C13_WriteFailureFailsRun ==
    (last.op = "run" /\ last.writeOutcome = "write_fails") =>
        /\ ~last.success
        /\ stateFile = last.prevState

\* C14: the state entry written for a file that was edited while the run's
\* storage step was in progress holds the hash, size and mtime of the
\* pre-storage snapshot, not those of the edited content.
C14_EditedFileEntryFromSnapshot ==
    (last.op = "run" /\ last.writes > 0) =>
        \A f \in last.editedDuringStorage :
            f \in DOMAIN stateFile.data =>
                stateFile.data[f] = last.snapshot[f]

C16_Attempts ==
    {i \in DOMAIN upsert.log : upsert.log[i].kind = "upsert"}

\* the sub-batch of the log has returned
C16_Returned == upsert.pc \in {"verify", "done"} \/ upsert.attempt = 0

C16_RetryDiscipline ==
    /\ Cardinality(C16_Attempts) <= max_retries
    /\ \A i \in C16_Attempts :
        /\ i > 1 =>
            /\ i >= 3
            /\ upsert.log[i - 2] = UpsertEvent("timed_out")
            /\ upsert.log[i - 1]
                 = SleepEvent(2 ^ (Cardinality({j \in C16_Attempts : j < i}) - 1))
        /\ upsert.log[i].outcome \in {"response_error", "unexpected_error"} =>
            /\ i = Len(upsert.log)
            /\ C16_Returned
            /\ upsert.result = "failed"

\* C16: for each sub-batch at most max_retries (3) upsert attempts are made;
\* a further attempt is made only after a timeout and after waiting
\* 2^attempt seconds; a non-timeout error fails the sub-batch with no retry;
\* the routine always returns after finitely many attempts.
C16_BoundedRetryWithBackoff ==
    /\ []C16_RetryDiscipline
    /\ \A b \in 1..MaxBatches :
        (upsert.pc = "batch" /\ upsert.batch_num = b)
            ~> (upsert.pc = "done" \/ upsert.batch_num > b)

\* a sub-batch succeeded at its third attempt, after waiting 1 s and 2 s
C16_Witness ==
    /\ upsert.result = "ok"
    /\ upsert.log = <<UpsertEvent("timed_out"), SleepEvent(1),
                      UpsertEvent("timed_out"), SleepEvent(2),
                      UpsertEvent("ok")>>

\* C17: every paginated scroll terminates for any backend behaviour: the
\* scroll helper stops on a previously seen offset or after at most 1000
\* iterations, and the entity-name scan of the orchestrator cannot loop
\* forever either.
C17_EveryScrollTerminates ==
    /\ [](scroll.calls <= max_iterations)
    /\ [](scroll.pc = "returned" =>
            scroll.stop \in {"complete", "error", "seen_offset",
                             "max_iterations"})
    /\ (scroll.pc = "scrolling") ~> (scroll.pc = "returned")
    /\ (scan.pc = "scanning") ~> (scan.pc = "returned")

\* C19: in the debouncer, after any sequence of events each path is in at
\* most one of the pending-modified set and the pending-deleted set, the one
\* matching its most recent event: a delete removes the pending
\* modification, a create/modify refreshes the timestamp and clears the
\* delete mark.
C19_PendingMatchesLatestEvent ==
    \A p \in WatchedPaths :
        /\ ~(p \in DOMAIN deb.pending /\ p \in deb.deleted)
        /\ p \in DOMAIN deb.pending =>
            /\ deb.handled[p].kind = "changed"
            /\ deb.pending[p] = deb.handled[p].timestamp
        /\ p \in deb.deleted => deb.handled[p].kind = "deleted"

\* one path is marked deleted after a modification of it, another is
\* pending with a refreshed timestamp after a delete mark
C19_Witness ==
    \E p, q \in WatchedPaths :
        /\ p \in deb.deleted
        /\ deb.handled[p].turned
        /\ q \in DOMAIN deb.pending
        /\ deb.handled[q].turned
        /\ deb.pending[q] > 0

\* C20: the debouncer emits a batch as soon as a pending path's quiet
\* interval has elapsed or the pending set exceeds the max-batch threshold,
\* whichever happens first: while the debouncer runs, no path has been
\* pending for longer than the quiet interval and the pending set does not
\* exceed the threshold.
C20_BatchEmittedWhenDue ==
    deb.running =>
        /\ \A p \in DOMAIN deb.pending : clock - deb.pending[p] <= delay
        /\ Cardinality(DOMAIN deb.pending) <= deb.max_batch_size

\* C18: after clear_collection(preserve_manual=true) returns success, no
\* point with a non-empty file_path and no point carrying the full
\* (entity_name, relation_target, relation_type) triple remains, and every
\* other point that was in the collection is still there.
C18_ClearKeepsManualOnly ==
    (memory.op = "clear" /\ memory.preserve_manual /\ memory.success) =>
        /\ \A p \in memory.coll : ~IsAutoGenerated(p)
        /\ \A p \in memory.before : ~IsAutoGenerated(p) => p \in memory.coll

\* C21: when the debouncer is stopped, every event accepted before the stop
\* (still queued, pending but not yet quiet, or a pending delete) is
\* delivered to the callback exactly once: a stopped debouncer holds no
\* queued event, no pending modification and no delete mark.
C21_StopDeliversEveryAcceptedEvent ==
    ~deb.running =>
        /\ deb.queue = <<>>
        /\ DOMAIN deb.pending = {}
        /\ deb.deleted = {}

\* C22: for a path that receives a burst of events whose consecutive gaps
\* are all shorter than the debounce delay, the output contains that path
\* exactly once for that quiet window, whatever events arrive for other
\* paths in the meantime: no batch delivers a path while a change of that
\* path, accepted less than the delay after the delivered one, is waiting.
C22_BurstDeliveredOnce ==
    \A p \in DOMAIN deb.batch.stable_files :
        \A i \in DOMAIN deb.queue :
            (deb.queue[i].file_path = p
                    /\ deb.queue[i].event_type # "deleted") =>
                deb.queue[i].timestamp - deb.batch.stable_files[p] >= delay

\* C23: the async debouncer and the thread+timer coalescer are equivalent:
\* for the same sequence of created/modified events and timings, the
\* batches that the two have delivered so far agree, batch by batch.
C23_ShapesDeliverSameBatches ==
    \A i \in 1..Len(delivered) :
        i <= Len(coal.ready_batches) =>
            delivered[i] = [modified_files |-> coal.ready_batches[i],
                            deleted_files |-> {}]

\* C24: no run uses in-memory state left over from an earlier run on the
\* same orchestrator instance: the global entity-name set that a run parses
\* with holds the entity names of the collection as of that run.
C24_RunParsesWithNamesOfItsCollection ==
    last.op = "run" => ~last.staleCache

\* the collection after instance i and then instance j stored all their
\* points, one run after the other
OneAfterTheOther(w, i, j) == Upsert(Upsert(w.base, Plan(w, i)), Plan(w, j))

\* the two instances hold the same point for every id that both store
SamePayloads(w) ==
    \A p \in Plan(w, "A"), q \in Plan(w, "B") : p.id = q.id => p = q

\* C25 as stated: two instances upserting into the same collection at the
\* same time leave exactly one point per id string, and the same point set
\* as if the two runs had executed one after the other.
C25_InterleavingEqualsSerialRun ==
    /\ \A p, q \in writers.coll : p.id = q.id => p = q
    /\ (\A i \in Instances : Returned(writers, i)) =>
        \/ writers.coll = OneAfterTheOther(writers, "A", "B")
        \/ writers.coll = OneAfterTheOther(writers, "B", "A")

\* C25 amended: every interleaving of the sub-batch upserts leaves exactly
\* one point per id string: a point of the collection as it was for an id
\* that no instance stored, and for an id that an instance stored the point
\* that one of them stored; when the two instances hold the same point for
\* every id that both store, the point set is the one of the two runs
\* executed one after the other.
C25_OnePointPerIdSerialWhenSamePayloads ==
    /\ \A p, q \in writers.coll : p.id = q.id => p = q
    /\ (\A i \in Instances : Returned(writers, i)) =>
        LET stored == Plan(writers, "A") \cup Plan(writers, "B")
        IN /\ {p.id : p \in writers.coll}
                = {p.id : p \in writers.base \cup stored}
           /\ \A p \in writers.coll :
                IF \E q \in stored : q.id = p.id THEN p \in stored
                ELSE p \in writers.base
           /\ SamePayloads(writers) =>
                /\ writers.coll = OneAfterTheOther(writers, "A", "B")
                /\ writers.coll = OneAfterTheOther(writers, "B", "A")

\* two instances have stored the same points for shared ids, each sending a
\* sub-batch while the other was between two of its own
C25_Witness ==
    /\ \A i \in Instances : Returned(writers, i)
    /\ writers.interleaved
    /\ SamePayloads(writers)
    /\ Plan(writers, "A") \cap Plan(writers, "B") # {}
    /\ Plan(writers, "A") # Plan(writers, "B")

\* C26: the hash recorded in the state file for a file processed in a run
\* is the hash of the content that was parsed and stored in that run, even
\* if the file is modified after it was parsed and before the pre-storage
\* snapshot is taken (here for the runs whose storage and state write
\* succeed).
C26_RecordedHashIsParsedHash ==
    (last.op = "run" /\ last.storage = "ok" /\ last.writeOutcome = "ok") =>
        \A f \in DOMAIN last.parsedHash :
            f \in DOMAIN LoadState(stateFile) =>
                LoadState(stateFile)[f].hash = last.parsedHash[f]

\* C27: if removing a deleted file's points from the store fails, the
\* file's entry stays in the state file so that a later run retries the
\* removal: an incremental run removes the state entry of a file only when
\* the file's points are gone from the collection.
C27_EntryRemovedOnlyAfterPointsGone ==
    (last.op = "run" /\ last.incremental) =>
        \A k \in TrackedFiles(last.prevState) \ TrackedFiles(stateFile) :
            PointsOfFile(coll, k) = {}

\* C28: a file of which a run skipped a point because the embedding failed
\* is scheduled again by the next incremental run although it did not
\* change (the disk is as the run left it)
C28_SkippedItemIsScheduledAgain ==
    (last.op = "run" /\ last.embedSkipped # {}) =>
        last.embedSkipped \subseteq FindWork(disk, stateFile).changed

\* C29: the run after a run that stopped between its storage (or its
\* deletions) and the state write leaves the collection and the state file
\* that the stopped run would have left, and no two points with one id
C29_RerunEqualsUninterruptedRun ==
    [][(last.op = "interrupted" /\ last'.op = "run") =>
          /\ coll' = last.expectColl
          /\ stateFile' = last.expectState
          /\ \A p, q \in coll' : p.id = q.id => p = q]_vars

\* C30: the deleted files of an incremental run are files that the state
\* file it loaded tracked and that are not on disk; the _statistics key is
\* not among them
C30_DeletedAreTrackedAndGone ==
    (last.op = "run" /\ last.incremental) =>
        /\ StatisticsKey \notin last.deleted
        /\ \A k \in last.deleted :
              /\ k \in TrackedFiles(last.prevState)
              /\ ~Exists(disk, k)

====
